---- MODULE Spec2Model ----
(***************************************************************************)
(* A model of the momentum scanner: the two calculate_momentum variants    *)
(* (src/app.py and src/analysis.py), the concurrent fetch pipeline of      *)
(* src/data_loader.py (fetch_all, get_ticker_data, _fetch_one_history,     *)
(* _cached_history) and the fetch loop of src/app.py (main,                *)
(* build_ticker_row).                                                      *)
(*                                                                         *)
(* Real-valued indicators are modelled by integers: every threshold of the *)
(* scoring code is an integer except the volume-ratio thresholds 1.5 and   *)
(* 1.2, so the volume ratio is carried in tenths (15, 12).  NaN is a       *)
(* sentinel on which every comparison is false, as in IEEE arithmetic.     *)
(***************************************************************************)
EXTENDS Integers, Sequences, FiniteSets, TLC

VARIABLES
    mode,       \* which entry point runs: "score", "loader", "app", ...
    variant,    \* score mode: the calculate_momentum called ("app" | "analysis")
    hist,       \* score mode: the history handed to calculate_momentum
    result,     \* score mode: Pending, or what calculate_momentum returned
    pts,        \* score mode: the increments app.py added to `score`, in order
    df,         \* the input table: a sequence of rows, one unit of work per row
    upc,        \* per unit: where its worker thread is
    attempt,    \* per unit: tenacity's attempt number of _fetch_one_history
    lastWait,   \* per unit: the sleep that preceded its current attempt
    calls,      \* per unit: provider calls it has started
    fut,        \* per unit: the future's result (Pending, None, Raised or a row)
    uhist,      \* per unit: the history its fetch returned (Pending before)
    cache,      \* st.cache_data: per key NoEntry or the cached return value
    lock,       \* st.cache_data: per key the unit computing the value, 0 when free
    started,    \* per key: provider calls started since its entry last expired
    fetched,    \* per key: provider calls that returned since its entry last expired
    expired,    \* cache entries dropped by the time-to-live so far
    mainpc,     \* the orchestrator: "start", "collecting", "returned", "crashed"
    collected,  \* units whose future the as_completed loop has consumed
    progress,   \* the i of "Processed i/total tickers"
    rows,       \* the rows appended so far, in completion order
    infoLog,    \* the st.info messages "Skipped one symbol due to error"
    out,        \* the table the run returned
    runs        \* script runs started so far (app.py reruns on every interaction)

svars == <<variant, hist, result, pts>>
uvars == <<upc, attempt, lastWait, calls, fut, uhist>>
cvars == <<cache, lock, started, fetched, expired>>
mvars == <<mainpc, collected, progress, rows, infoLog, out, runs>>
vars == <<mode, svars, df, uvars, cvars, mvars>>

(***************************************************************************)
(* Bounds of the model.                                                    *)
(***************************************************************************)
MaxBars == 61
MaxEma == 3
MaxSymbols == 2
MaxExpiry == 1
MaxRuns == 2
MaxSheetRows == 2

(***************************************************************************)
(* Values.                                                                 *)
(***************************************************************************)
NaN == -999
\* Python's None, and a call that has not returned yet (records, as results are)
None == [none |-> TRUE]
Pending == [pending |-> TRUE]
\* a call that ended by raising
Raised == [raised |-> TRUE]

Max(a, b) == IF a >= b THEN a ELSE b
Min(a, b) == IF a <= b THEN a ELSE b

\* IEEE comparisons: false as soon as one side is NaN.
Lt(a, b) == a # NaN /\ b # NaN /\ a < b
Le(a, b) == a # NaN /\ b # NaN /\ a <= b
Gt(a, b) == Lt(b, a)
Ge(a, b) == Le(b, a)

\* `if hist.empty or len(hist) < 50` (app.py) and `len(close) < 60` (analysis.py)
APP_MIN_BARS == 50
ANALYSIS_MIN_BARS == 60

(***************************************************************************)
(* Histories.  A history is its number of bars, whether it has the five    *)
(* required columns, and the latest values of the indicators the scoring   *)
(* reads (the locals of calculate_momentum just before `score = 0`).       *)
(***************************************************************************)
EmaValues == 1..MaxEma
PriceValues == {MaxEma - 1, MaxEma + 1}
RsiValues == {NaN, 29, 30, 40, 50, 60, 80, 90, 91}
MacdHistValues == {0, 1}
\* tenths; NaN when the 20-bar mean holds a missing volume
VolRatioValues == {NaN, 10, 12, 15, 20}
AdxValues == {NaN, 14, 15, 20, 25, 30, 40, 60}
\* (bullish, bearish) of the latest bar
CrossValues == {<<FALSE, FALSE>>, <<TRUE, FALSE>>, <<FALSE, TRUE>>}

Vec(p, e20, e50, e200, r, m, v, a, x) ==
    [price |-> p, ema20 |-> e20, ema50 |-> e50, ema200 |-> e200, rsi |-> r,
     macd_hist |-> m, volume_ratio |-> v, adx |-> a,
     last_bullish |-> x[1], last_bearish |-> x[2]]

\* Indicator vectors the app.py scoring distinguishes.
AppVectors ==
    { Vec(p, e20, e50, e200, r, m, v, a, x) :
        p \in PriceValues, e20 \in EmaValues, e50 \in EmaValues, e200 \in EmaValues,
        r \in RsiValues \ {29, 30}, m \in MacdHistValues, v \in VolRatioValues,
        a \in AdxValues \ {14, 15, 60}, x \in CrossValues }

\* Indicator vectors the analysis.py scoring distinguishes (it computes the volume
\* ratio but never scores it: two values of it are enough).
AnalysisVectors ==
    { Vec(p, e20, e50, e200, r, m, v, a, x) :
        p \in PriceValues, e20 \in EmaValues, e50 \in EmaValues, e200 \in EmaValues,
        r \in RsiValues, m \in MacdHistValues, v \in {10, 20},
        a \in AdxValues \ {20, 30}, x \in CrossValues }

BaseVec == Vec(MaxEma + 1, 3, 2, 1, 60, 1, 10, 30, <<FALSE, FALSE>>)

Hist(n, cols, v) == [n |-> n, cols |-> cols, vec |-> v]

(***************************************************************************)
(* src/app.py calculate_momentum: scoring.                                 *)
(***************************************************************************)
\* Mutant of Clamp: the upper bound only.
ClampNoFloor(score) == Min(100, score)

Clamp(score) == Max(0, Min(100, score))

AppTrendPts(v) ==
    IF v.price > v.ema20 /\ v.ema20 > v.ema50 /\ v.ema50 > v.ema200 THEN 30
    ELSE IF v.price > v.ema50 /\ v.ema50 > v.ema200 THEN 20
    ELSE IF v.price > v.ema200 THEN 10
    ELSE 0

\* Mutant of AppRsiPts: the upper RSI band ends before 90, and an RSI of 80 is
\* still in the 20-point band.
AppRsiPtsShifted(v) ==
    IF Le(60, v.rsi) /\ Le(v.rsi, 80) THEN 20
    ELSE IF (Le(50, v.rsi) /\ Lt(v.rsi, 60)) \/ (Lt(80, v.rsi) /\ Lt(v.rsi, 90)) THEN 10
    ELSE 0

AppRsiPts(v) ==
    IF Le(60, v.rsi) /\ Lt(v.rsi, 80) THEN 20
    ELSE IF (Le(50, v.rsi) /\ Lt(v.rsi, 60)) \/ (Le(80, v.rsi) /\ Le(v.rsi, 90)) THEN 10
    ELSE 0

\* macd_hist = macd - signal and macd_line_above_signal = macd > signal
macd_line_above_signal(v) == v.macd_hist > 0

AppMacdPts(v) ==
    IF v.macd_hist > 0 /\ macd_line_above_signal(v) THEN 15 ELSE 0

AppVolPts(v) ==
    IF Gt(v.volume_ratio, 15) THEN 15
    ELSE IF Gt(v.volume_ratio, 12) THEN 10
    ELSE 0

AppAdxPts(v) ==
    IF Gt(v.adx, 30) THEN 20
    ELSE IF Gt(v.adx, 25) THEN 15
    ELSE IF Gt(v.adx, 20) THEN 10
    ELSE 0

AppDiPts(v) ==
    (IF v.last_bullish THEN 10 ELSE 0) + (IF v.last_bearish THEN -10 ELSE 0)

\* The six `score += ...` of app.py, in order.
AppPoints(v) ==
    <<AppTrendPts(v), AppRsiPts(v), AppMacdPts(v), AppVolPts(v), AppAdxPts(v), AppDiPts(v)>>

RECURSIVE SumSeq(_)
SumSeq(s) == IF s = <<>> THEN 0 ELSE Head(s) + SumSeq(Tail(s))

\* Mutant of AppTrend: the tiers exclude their lower bounds.
AppTrendStrict(score) ==
    IF score > 80 THEN "up Strong"
    ELSE IF score > 60 THEN "up Medium"
    ELSE IF score > 40 THEN "upright Weak"
    ELSE "right Neutral"

AppTrend(score) ==
    IF score >= 80 THEN "up Strong"
    ELSE IF score >= 60 THEN "up Medium"
    ELSE IF score >= 40 THEN "upright Weak"
    ELSE "right Neutral"

\* hist["Close"], hist["High"], ... raise KeyError on a frame without the column.
AppCalculateMomentum(h) ==
    IF h.n = 0 \/ h.n < APP_MIN_BARS THEN None
    ELSE IF ~h.cols THEN Raised
    ELSE LET score == Clamp(SumSeq(AppPoints(h.vec)))
         IN  [Momentum_Score |-> score, Trend |-> AppTrend(score)]

(***************************************************************************)
(* src/analysis.py calculate_momentum: scoring.                            *)
(***************************************************************************)
AnaEmaPts(v) ==
    (IF v.price > v.ema20 THEN 10 ELSE 0)
    + (IF v.price > v.ema50 THEN 10 ELSE 0)
    + (IF v.price > v.ema200 THEN 10 ELSE 0)
    + (IF v.ema20 > v.ema50 /\ v.ema50 > v.ema200 THEN 10 ELSE 0)

\* Mutant of AnaRsiPts: the last zone is a plain `else`, which an undefined RSI
\* falls into.
AnaRsiPtsElse(v) ==
    LET zone ==
            IF Le(60, v.rsi) /\ Lt(v.rsi, 80) THEN 20
            ELSE IF (Le(50, v.rsi) /\ Lt(v.rsi, 60)) \/ (Le(80, v.rsi) /\ Lt(v.rsi, 90)) THEN 10
            ELSE IF Le(40, v.rsi) /\ Lt(v.rsi, 50) THEN 0
            ELSE IF Le(30, v.rsi) /\ Lt(v.rsi, 40) THEN -5
            ELSE IF Ge(v.rsi, 90) THEN 0
            ELSE -10
    IN  IF Ge(v.rsi, 90) THEN zone - 5 ELSE zone

AnaRsiPts(v) ==
    LET zone ==
            IF Le(60, v.rsi) /\ Lt(v.rsi, 80) THEN 20
            ELSE IF (Le(50, v.rsi) /\ Lt(v.rsi, 60)) \/ (Le(80, v.rsi) /\ Lt(v.rsi, 90)) THEN 10
            ELSE IF Le(40, v.rsi) /\ Lt(v.rsi, 50) THEN 0
            ELSE IF Le(30, v.rsi) /\ Lt(v.rsi, 40) THEN -5
            ELSE IF Lt(v.rsi, 30) THEN -10
            ELSE 0
    IN  IF Ge(v.rsi, 90) THEN zone - 5 ELSE zone

AnaMacdPts(v) == IF v.macd_hist > 0 THEN 10 ELSE 0

AnaAdxPts(v) ==
    IF Ge(v.adx, 60) THEN 20
    ELSE IF Le(40, v.adx) /\ Lt(v.adx, 60) THEN 15
    ELSE IF Le(25, v.adx) /\ Lt(v.adx, 40) THEN 10
    ELSE IF Le(15, v.adx) /\ Lt(v.adx, 25) THEN 5
    ELSE 0

AnaDiPts(v) ==
    (IF v.last_bullish THEN 5 ELSE 0) + (IF v.last_bearish THEN -5 ELSE 0)

AnaTrend(v) ==
    IF v.price > v.ema50 /\ v.ema50 > v.ema200 /\ Ge(v.rsi, 60) THEN "up Strong"
    ELSE IF v.price > v.ema200 /\ Ge(v.rsi, 50) THEN "up Medium"
    ELSE IF v.price >= v.ema200 THEN "leftright Neutral"
    ELSE "down Weak"

\* Mutant of AnaCalculateMomentum: the minimum is app.py's 50 bars.
AnaCalculateMomentumMin50(h) ==
    IF h.n = 0 THEN None
    ELSE IF ~h.cols THEN None
    ELSE IF h.n < APP_MIN_BARS THEN None
    ELSE LET v == h.vec
             score == AnaEmaPts(v) + AnaRsiPts(v) + AnaMacdPts(v) + AnaAdxPts(v) + AnaDiPts(v)
         IN  [Momentum_Score |-> Clamp(score), Trend |-> AnaTrend(v),
              EMA_Points |-> AnaEmaPts(v), RSI_Points |-> AnaRsiPts(v),
              MACD_Points |-> AnaMacdPts(v), ADX_Points |-> AnaAdxPts(v),
              DI_Points |-> AnaDiPts(v)]

AnaCalculateMomentum(h) ==
    IF h.n = 0 THEN None
    ELSE IF ~h.cols THEN None
    ELSE IF h.n < ANALYSIS_MIN_BARS THEN None
    ELSE LET v == h.vec
             score == AnaEmaPts(v) + AnaRsiPts(v) + AnaMacdPts(v) + AnaAdxPts(v) + AnaDiPts(v)
         IN  [Momentum_Score |-> Clamp(score), Trend |-> AnaTrend(v),
              EMA_Points |-> AnaEmaPts(v), RSI_Points |-> AnaRsiPts(v),
              MACD_Points |-> AnaMacdPts(v), ADX_Points |-> AnaAdxPts(v),
              DI_Points |-> AnaDiPts(v)]


(***************************************************************************)
(* The indicator engine at the latest bar.  RSI is in hundredths, the      *)
(* volume ratio in tenths; a quotient is rounded down.                     *)
(***************************************************************************)
GainLossValues == {NaN, 0, 1, 3}
VolumeValues == {NaN, 0, 3, 4}
VolAvgValues == {NaN, 0, 2}
DiValues == {NaN, 1, 2}

\* The inputs of one bar: a mean of 20 volumes that is 0 has a latest volume of 0.
IndicatorInputs ==
    { [avg_gain |-> g, avg_loss |-> l, volume |-> v, vol_avg_20 |-> a,
       plus_di |-> p, minus_di |-> m, plus_di_prev |-> pp, minus_di_prev |-> pm] :
        g \in GainLossValues, l \in GainLossValues,
        v \in VolumeValues, a \in VolAvgValues,
        p \in DiValues, m \in DiValues, pp \in DiValues, pm \in DiValues }
    \ { i \in [avg_gain : GainLossValues, avg_loss : GainLossValues,
               volume : VolumeValues, vol_avg_20 : VolAvgValues,
               plus_di : DiValues, minus_di : DiValues,
               plus_di_prev : DiValues, minus_di_prev : DiValues] :
            i.vol_avg_20 = 0 /\ i.volume # 0 }

\* rsi = 100 - (100 / (1 + rs)) for rs = num/den, which is 100 * num / (num + den)
RsiOfRs(num, den) == (10000 * num) \div (num + den)

\* app.py: rs = avg_gain / avg_loss if avg_loss != 0 else 100
AppRsi(avg_gain, avg_loss) ==
    IF avg_loss = NaN \/ avg_gain = NaN THEN NaN
    ELSE IF avg_loss # 0 THEN RsiOfRs(avg_gain, avg_loss)
    ELSE RsiOfRs(100, 1)

\* analysis.py _rsi: rs = gain / loss.replace(0, np.nan)
AnaRsi(gain, loss) ==
    IF loss = NaN \/ gain = NaN THEN NaN
    ELSE IF loss = 0 THEN NaN
    ELSE RsiOfRs(gain, loss)

\* app.py: volume.iloc[-1] / vol_avg_20 if vol_avg_20 != 0 else 1
AppVolumeRatio(volume, vol_avg_20) ==
    IF vol_avg_20 = NaN THEN NaN
    ELSE IF vol_avg_20 # 0
         THEN (IF volume = NaN THEN NaN ELSE (10 * volume) \div vol_avg_20)
    ELSE 10

\* analysis.py: vol.iloc[-1] / mean if mean > 0 else np.nan
AnaVolumeRatio(volume, mean) ==
    IF Gt(mean, 0)
    THEN (IF volume = NaN THEN NaN ELSE (10 * volume) \div mean)
    ELSE NaN

\* Mutant of calculate_di_crossovers: the bearish flag compares the previous
\* bar only.
calculate_di_crossovers_prev_only(plus_di, minus_di, plus_prev, minus_prev) ==
    << Gt(plus_di, minus_di) /\ Le(plus_prev, minus_prev),
       Le(minus_prev, plus_prev) >>

\* (bullish_crossover, bearish_crossover) of a bar, the same in both modules
calculate_di_crossovers(plus_di, minus_di, plus_prev, minus_prev) ==
    << Gt(plus_di, minus_di) /\ Le(plus_prev, minus_prev),
       Gt(minus_di, plus_di) /\ Le(minus_prev, plus_prev) >>

(***************************************************************************)
(* The input table.  Strings that are taken apart (symbols and their venue *)
(* suffixes) are sequences of tokens; clean_symbols has upper-cased and    *)
(* stripped Symbol and Exchange and dropped rows with a repeated Symbol.   *)
(***************************************************************************)
\* A row of a sheet whose one metadata column is named col.
Row(sym, ex, yfs, col, value) ==
    [c \in {"Symbol", "Exchange", "YF_Symbol", col} |->
        CASE c = "Symbol" -> sym
          [] c = "Exchange" -> ex
          [] c = "YF_Symbol" -> yfs
          [] OTHER -> value]

\* The metadata column of the sheet: a sector, or the Momentum_Score column of
\* a downloaded results file that is uploaded again.
SheetColumns == {"Sector", "Momentum_Score"}

InputRows(col) ==
    IF col = "Sector"
    THEN << Row(<<"A">>, "LSE", <<>>, col, "Tech"),
            Row(<<"A", ".L">>, "LSE", <<>>, col, "Banks"),
            Row(<<"B">>, "NYSE", <<"B", "-X">>, col, "Tech") >>
    ELSE << Row(<<"A">>, "LSE", <<>>, col, 7),
            Row(<<"B">>, "NYSE", <<"B", "-X">>, col, 9) >>

RECURSIVE SubSeqsOf(_)
\* every order-preserving selection of the rows of s
SubSeqsOf(s) ==
    IF s = <<>> THEN {<<>>}
    ELSE LET rest == SubSeqsOf(Tail(s))
         IN  rest \cup { <<Head(s)>> \o t : t \in rest }

SheetsOf(col) == { t \in SubSeqsOf(InputRows(col)) : Len(t) <= MaxSymbols }
Sheets == UNION { SheetsOf(col) : col \in SheetColumns }

\* EX_SUFFIX.get(sx, "")
EX_SUFFIX(sx) ==
    CASE sx \in {"NYSE", "NYS", "NYQ", "NASDAQ"} -> <<>>
      [] sx \in {"LSE", "LON"} -> <<".L">>
      [] sx = "TSX" -> <<".TO">>
      [] OTHER -> <<>>

EndsWith(sym, suffix) ==
    /\ Len(suffix) <= Len(sym)
    /\ SubSeq(sym, Len(sym) - Len(suffix) + 1, Len(sym)) = suffix

map_to_yf_symbol(symbol, exchange, existing) ==
    IF existing # <<>> THEN existing
    ELSE LET suffix == EX_SUFFIX(exchange)
         IN  IF suffix # <<>> /\ ~EndsWith(symbol, suffix) THEN symbol \o suffix
             ELSE symbol

Units == DOMAIN df
KeyOf(u) == map_to_yf_symbol(df[u].Symbol, df[u].Exchange, df[u].YF_Symbol)
KeysOf(table) ==
    { map_to_yf_symbol(table[u].Symbol, table[u].Exchange, table[u].YF_Symbol) :
        u \in DOMAIN table }

(***************************************************************************)
(* The history provider (yf.download): each call raises or returns a       *)
(* frame.  The frames: empty, one bar short, without the Volume column,    *)
(* and two usable ones.                                                    *)
(***************************************************************************)
WeakVec == Vec(MaxEma - 1, 3, 2, 1, 40, 0, 10, 14, <<FALSE, FALSE>>)

ProviderHists ==
    { Hist(0, TRUE, BaseVec), Hist(ANALYSIS_MIN_BARS - 1, TRUE, BaseVec),
      Hist(MaxBars, FALSE, BaseVec), Hist(MaxBars, TRUE, BaseVec),
      Hist(MaxBars, TRUE, WeakVec) }

(***************************************************************************)
(* src/data_loader.py                                                      *)
(***************************************************************************)
MAX_WORKERS == 8

NoEntry == [noentry |-> TRUE]

\* Mutant of StopAfterAttempt: one retry fewer.
StopAfterTwoAttempts(n) == n >= 2

\* stop=stop_after_attempt(3)
StopAfterAttempt(n) == n >= 3

\* get_ticker_data from `if hist is None or hist.empty or len(hist) < 60` on
GetTickerDataTail(u, h) ==
    IF h.n = 0 \/ h.n < 60 THEN None
    ELSE IF ~h.cols THEN None
    ELSE LET momentum == AnaCalculateMomentum(h)
         IN  IF momentum = None THEN None
             ELSE [Symbol |-> df[u].Symbol, Exchange |-> df[u].Exchange,
                   YF_Symbol |-> KeyOf(u),
                   Momentum_Score |-> momentum.Momentum_Score,
                   Trend |-> momentum.Trend]

Running == { u \in Units : upc[u] \notin {"queued", "done"} }
InFlight(k) == { u \in Units : upc[u] = "calling" /\ KeyOf(u) = k }

PipelineIdle ==
    /\ df = <<>>
    /\ upc = <<>> /\ attempt = <<>> /\ lastWait = <<>> /\ calls = <<>> /\ fut = <<>>
    /\ uhist = <<>>
    /\ cache = <<>> /\ lock = <<>> /\ started = <<>> /\ fetched = <<>>
    /\ expired = 0
    /\ mainpc = "idle" /\ collected = {} /\ progress = 0
    /\ rows = <<>> /\ infoLog = <<>> /\ out = <<>> /\ runs = 0

InitLoader ==
    /\ mode = "loader"
    /\ variant = "analysis" /\ hist = Hist(0, TRUE, BaseVec) /\ result = Pending
    /\ pts = <<>>
    /\ df \in Sheets
    /\ upc = [u \in DOMAIN df |-> "queued"]
    /\ attempt = [u \in DOMAIN df |-> 0]
    /\ lastWait = [u \in DOMAIN df |-> "none"]
    /\ calls = [u \in DOMAIN df |-> 0]
    /\ fut = [u \in DOMAIN df |-> Pending]
    /\ uhist = [u \in DOMAIN df |-> Pending]
    /\ cache = [k \in KeysOf(df) |-> NoEntry]
    /\ lock = [k \in KeysOf(df) |-> 0]
    /\ started = [k \in KeysOf(df) |-> 0]
    /\ fetched = [k \in KeysOf(df) |-> 0]
    /\ expired = 0
    /\ mainpc = "start" /\ collected = {} /\ progress = 0
    /\ rows = <<>> /\ infoLog = <<>> /\ out = <<>> /\ runs = 1

\* fetch_all up to the submission of the futures
FetchAllStart ==
    /\ mode = "loader" /\ mainpc = "start"
    /\ mainpc' = IF Len(df) = 0 THEN "returned" ELSE "collecting"
    /\ UNCHANGED <<mode, svars, df, uvars, cvars, collected, progress, rows, infoLog, out,
                   runs>>

\* a pool thread takes the unit: get_ticker_data up to the sleep in _sleep_jitter
StartUnit(u) ==
    /\ mode = "loader" /\ mainpc = "collecting"
    /\ upc[u] = "queued"
    /\ Cardinality(Running) < MAX_WORKERS
    /\ upc' = [upc EXCEPT ![u] = "sleep_jitter"]
    /\ UNCHANGED <<mode, svars, df, attempt, lastWait, calls, fut, uhist, cvars, mvars>>

\* Mutant of LockFree: st.cache_data without its per-key compute lock.
LockIgnored(k) == TRUE

\* `with cache.compute_value_lock(value_key)` of st.cache_data: one computation
\* per key at a time
LockFree(k) == lock[k] = 0

\* One attempt of _fetch_one_history enters _cached_history: st.cache_data reads
\* the cache without the lock; a hit returns the value and get_ticker_data runs
\* to its end, a miss goes for the key's compute lock.
EnterAttempt(u) ==
    IF cache[KeyOf(u)] # NoEntry
    THEN /\ upc' = [upc EXCEPT ![u] = "done"]
         /\ uhist' = [uhist EXCEPT ![u] = cache[KeyOf(u)]]
         /\ fut' = [fut EXCEPT ![u] = GetTickerDataTail(u, cache[KeyOf(u)])]
    ELSE /\ upc' = [upc EXCEPT ![u] = "lockwait"]
         /\ UNCHANGED <<fut, uhist>>

\* _sleep_jitter returns; the first attempt starts
WakeJitter(u) ==
    /\ mode = "loader"
    /\ upc[u] = "sleep_jitter"
    /\ attempt' = [attempt EXCEPT ![u] = 1]
    /\ lastWait' = [lastWait EXCEPT ![u] = "jitter"]
    /\ EnterAttempt(u)
    /\ UNCHANGED <<mode, svars, df, calls, cvars, mvars>>

\* st.cache_data takes the key's compute lock and reads the cache again: a hit
\* returns, a miss calls yf.download under the lock
AcquireLock(u) ==
    /\ mode = "loader"
    /\ upc[u] = "lockwait"
    /\ LockFree(KeyOf(u))
    /\ IF cache[KeyOf(u)] # NoEntry
       THEN /\ upc' = [upc EXCEPT ![u] = "done"]
            /\ uhist' = [uhist EXCEPT ![u] = cache[KeyOf(u)]]
            /\ fut' = [fut EXCEPT ![u] = GetTickerDataTail(u, cache[KeyOf(u)])]
            /\ UNCHANGED <<calls, lock, started>>
       ELSE /\ upc' = [upc EXCEPT ![u] = "calling"]
            /\ lock' = [lock EXCEPT ![KeyOf(u)] = u]
            /\ calls' = [calls EXCEPT ![u] = @ + 1]
            /\ started' = [started EXCEPT ![KeyOf(u)] = @ + 1]
            /\ UNCHANGED <<fut, uhist>>
    /\ UNCHANGED <<mode, svars, df, attempt, lastWait, cache, fetched, expired, mvars>>

\* yf.download returns h: st.cache_data stores it whatever it holds, the lock is
\* released, and get_ticker_data runs to its end
ProviderReturns(u, h) ==
    /\ mode = "loader"
    /\ upc[u] = "calling"
    /\ cache' = [cache EXCEPT ![KeyOf(u)] = h]
    /\ lock' = [lock EXCEPT ![KeyOf(u)] = 0]
    /\ fetched' = [fetched EXCEPT ![KeyOf(u)] = @ + 1]
    /\ upc' = [upc EXCEPT ![u] = "done"]
    /\ uhist' = [uhist EXCEPT ![u] = h]
    /\ fut' = [fut EXCEPT ![u] = GetTickerDataTail(u, h)]
    /\ UNCHANGED <<mode, svars, df, attempt, lastWait, calls, started, expired, mvars>>

\* yf.download raises: nothing is stored, the lock is released,
\* _fetch_one_history raises TemporaryFetchError, and tenacity either sleeps its
\* exponential backoff or, the attempts used up, raises RetryError out of
\* get_ticker_data
ProviderRaises(u) ==
    /\ mode = "loader"
    /\ upc[u] = "calling"
    /\ lock' = [lock EXCEPT ![KeyOf(u)] = 0]
    /\ IF StopAfterAttempt(attempt[u])
       THEN /\ upc' = [upc EXCEPT ![u] = "done"]
            /\ fut' = [fut EXCEPT ![u] = Raised]
       ELSE /\ upc' = [upc EXCEPT ![u] = "sleep_backoff"]
            /\ fut' = fut
    /\ UNCHANGED <<mode, svars, df, attempt, lastWait, calls, uhist, cache, started,
                   fetched, expired, mvars>>

\* Mutant of WakeBackoff: the retry sleeps a jitter of its own.
WakeBackoffJittered(u) ==
    /\ mode = "loader"
    /\ upc[u] = "sleep_backoff"
    /\ attempt' = [attempt EXCEPT ![u] = @ + 1]
    /\ lastWait' = [lastWait EXCEPT ![u] = "jitter"]
    /\ EnterAttempt(u)
    /\ UNCHANGED <<mode, svars, df, calls, cvars, mvars>>

\* the backoff sleep of tenacity returns; the next attempt starts
WakeBackoff(u) ==
    /\ mode = "loader"
    /\ upc[u] = "sleep_backoff"
    /\ attempt' = [attempt EXCEPT ![u] = @ + 1]
    /\ lastWait' = [lastWait EXCEPT ![u] = "backoff"]
    /\ EnterAttempt(u)
    /\ UNCHANGED <<mode, svars, df, calls, cvars, mvars>>

\* ttl=CACHE_TTL: an entry older than the time-to-live is dropped
Expire(k) ==
    /\ mode \in {"loader", "app"}
    /\ cache[k] # NoEntry
    /\ expired < MaxExpiry
    /\ cache' = [cache EXCEPT ![k] = NoEntry]
    /\ started' = [started EXCEPT ![k] = 0]
    /\ fetched' = [fetched EXCEPT ![k] = 0]
    /\ expired' = expired + 1
    /\ UNCHANGED <<mode, svars, df, uvars, lock, mvars>>

\* Mutant of Collect: as_completed never hands over a future that raised.
CollectSkipsRaised(u) ==
    /\ mode = "loader" /\ mainpc = "collecting"
    /\ upc[u] = "done" /\ u \notin collected
    /\ fut[u] # Raised
    /\ collected' = collected \cup {u}
    /\ progress' = progress + 1
    /\ rows' = IF fut[u] # None THEN Append(rows, fut[u]) ELSE rows
    /\ UNCHANGED <<mode, svars, df, uvars, cvars, mainpc, infoLog, out, runs>>

\* Mutant of Collect: the progress update is not in a `finally`, so a future
\* that raised is logged without being counted.
CollectNoFinally(u) ==
    /\ mode = "loader" /\ mainpc = "collecting"
    /\ upc[u] = "done" /\ u \notin collected
    /\ collected' = collected \cup {u}
    /\ IF fut[u] = Raised
       THEN /\ infoLog' = Append(infoLog, "Skipped one symbol due to error")
            /\ UNCHANGED <<rows, progress>>
       ELSE /\ progress' = progress + 1
            /\ rows' = IF fut[u] # None THEN Append(rows, fut[u]) ELSE rows
            /\ infoLog' = infoLog
    /\ UNCHANGED <<mode, svars, df, uvars, cvars, mainpc, out, runs>>

\* one round of `for i, f in enumerate(as_completed(futures), start=1)`
Collect(u) ==
    /\ mode = "loader" /\ mainpc = "collecting"
    /\ upc[u] = "done" /\ u \notin collected
    /\ collected' = collected \cup {u}
    /\ progress' = progress + 1
    /\ IF fut[u] = Raised
       THEN infoLog' = Append(infoLog, "Skipped one symbol due to error") /\ rows' = rows
       ELSE IF fut[u] # None
       THEN rows' = Append(rows, fut[u]) /\ infoLog' = infoLog
       ELSE UNCHANGED <<rows, infoLog>>
    /\ UNCHANGED <<mode, svars, df, uvars, cvars, mainpc, out, runs>>

\* exclude = {"Symbol", "Exchange", "YF_Symbol"}; meta_cols
MetaCols(table) ==
    IF table = <<>> THEN {} ELSE DOMAIN table[1] \ {"Symbol", "Exchange", "YF_Symbol"}

\* right = df.loc[:, ["Symbol"] + meta_cols].drop_duplicates("Symbol"): the row
\* of right for a symbol
MetaOf(table, sym) ==
    LET hits == { j \in DOMAIN table : table[j].Symbol = sym }
        first == table[CHOOSE j \in hits : \A j2 \in hits : j <= j2]
    IN  [c \in {"Symbol"} \cup MetaCols(table) |-> first[c]]

\* One row of left.merge(right, on="Symbol", how="left"): a column the two
\* sides share, the key apart, is kept twice, as <name>_x and <name>_y.
MergeRow(left, right) ==
    LET both == (DOMAIN left \cap DOMAIN right) \ {"Symbol"}
        cols == ((DOMAIN left \cup DOMAIN right) \ both)
                \cup { c \o "_x" : c \in both } \cup { c \o "_y" : c \in both }
    IN  [c \in cols |->
            IF c \in DOMAIN left \ both THEN left[c]
            ELSE IF c \in DOMAIN right \ both THEN right[c]
            ELSE IF \E b \in both : c = b \o "_x"
                 THEN left[CHOOSE b \in both : c = b \o "_x"]
            ELSE right[CHOOSE b \in both : c = b \o "_y"]]

\* Mutant of MergeMeta: right keeps one row for each metadata value and the
\* join is an inner one.
MergeMetaInner(table, rs) ==
    LET kept == { table[j].Symbol : j \in { j \in DOMAIN table :
                    \A j2 \in 1..(j - 1) :
                        \E c \in MetaCols(table) : table[j2][c] # table[j][c] } }
        left == SelectSeq(rs, LAMBDA r : r.Symbol \in kept)
    IN  [j \in DOMAIN left |-> MergeRow(left[j], MetaOf(table, left[j].Symbol))]

\* `if meta_cols:` and the merge
MergeMeta(table, rs) ==
    IF MetaCols(table) = {} THEN rs
    ELSE [j \in DOMAIN rs |-> MergeRow(rs[j], MetaOf(table, rs[j].Symbol))]

\* sort_values("Momentum_Score", ascending=False, kind="mergesort"): stable
RECURSIVE InsertByScore(_, _)
InsertByScore(r, s) ==
    IF s = <<>> THEN <<r>>
    ELSE IF Head(s).Momentum_Score >= r.Momentum_Score
         THEN <<Head(s)>> \o InsertByScore(r, Tail(s))
         ELSE <<r>> \o s

RECURSIVE SortByScore(_)
SortByScore(s) ==
    IF s = <<>> THEN <<>>
    ELSE InsertByScore(s[Len(s)], SortByScore(SubSeq(s, 1, Len(s) - 1)))

\* fetch_all after the loop: the merge of the metadata and the sort
FetchAllReturn ==
    /\ mode = "loader" /\ mainpc = "collecting"
    /\ collected = Units
    /\ out' = IF rows = <<>> THEN <<>>
              ELSE LET merged == MergeMeta(df, rows)
                   IN  IF merged # <<>> /\ "Momentum_Score" \in DOMAIN merged[1]
                       THEN SortByScore(merged) ELSE merged
    /\ mainpc' = "returned"
    /\ UNCHANGED <<mode, svars, df, uvars, cvars, collected, progress, rows, infoLog,
                   runs>>

NextLoader ==
    \/ FetchAllStart
    \/ \E u \in Units : StartUnit(u)
    \/ \E u \in Units : WakeJitter(u)
    \/ \E u \in Units : AcquireLock(u)
    \/ \E u \in Units : \E h \in ProviderHists : ProviderReturns(u, h)
    \/ \E u \in Units : ProviderRaises(u)
    \/ \E u \in Units : WakeBackoff(u)
    \/ \E u \in Units : Collect(u)
    \/ \E k \in DOMAIN cache : Expire(k)
    \/ FetchAllReturn

SpecLoader == InitLoader /\ [][NextLoader]_vars

\* What the worker of unit u can do next.
UnitStep(u) ==
    /\ u \in Units
    /\ \/ StartUnit(u)
       \/ WakeJitter(u)
       \/ AcquireLock(u)
       \/ \E h \in ProviderHists : ProviderReturns(u, h)
       \/ ProviderRaises(u)
       \/ WakeBackoff(u)

\* The pool runs every submitted unit, a sleep ends, a provider call returns
\* or raises, and the main thread goes on whenever it can.
FairLoader ==
    /\ SpecLoader
    /\ WF_vars(FetchAllStart)
    /\ WF_vars(FetchAllReturn)
    /\ \A u \in 1..MaxSymbols : WF_vars(UnitStep(u))
    /\ \A u \in 1..MaxSymbols : WF_vars(u \in Units /\ Collect(u))

(***************************************************************************)
(* src/app.py: main and build_ticker_row.  main has set YF_Symbol to the   *)
(* Symbol, so a unit's cache key (symbol, yf_symbol) is its symbol.        *)
(* get_history is imported from a data_loader revision that is not in the  *)
(* sources: it is the specification's Resilient Fetcher, which returns a   *)
(* frame (or None) or, its attempts used up, raises.                       *)
(***************************************************************************)
AppSheets ==
    { [j \in DOMAIN t |-> [t[j] EXCEPT !.YF_Symbol = t[j].Symbol]] :
        t \in SheetsOf("Sector") }

GetHistoryReturns ==
    { None, Hist(0, TRUE, BaseVec), Hist(APP_MIN_BARS - 1, TRUE, BaseVec),
      Hist(MaxBars, FALSE, BaseVec), Hist(MaxBars, TRUE, BaseVec),
      Hist(MaxBars, TRUE, WeakVec) }

\* build_ticker_row from `if hist is None or len(hist) < 50` on
BuildTickerRowTail(u, h) ==
    IF h = None THEN None
    ELSE IF h.n < 50 THEN None
    ELSE LET momentum == AppCalculateMomentum(h)
         IN  IF momentum = Raised THEN Raised
             ELSE IF momentum = None THEN None
             ELSE [Symbol |-> df[u].Symbol, YF_Symbol |-> df[u].YF_Symbol,
                   Momentum_Score |-> momentum.Momentum_Score,
                   Trend |-> momentum.Trend]

InitApp ==
    /\ mode = "app"
    /\ variant = "app" /\ hist = Hist(0, TRUE, BaseVec) /\ result = Pending
    /\ pts = <<>>
    /\ df \in AppSheets
    /\ upc = [u \in DOMAIN df |-> "queued"]
    /\ attempt = [u \in DOMAIN df |-> 0]
    /\ lastWait = [u \in DOMAIN df |-> "none"]
    /\ calls = [u \in DOMAIN df |-> 0]
    /\ fut = [u \in DOMAIN df |-> Pending]
    /\ uhist = [u \in DOMAIN df |-> Pending]
    /\ cache = [k \in KeysOf(df) |-> NoEntry]
    /\ lock = [k \in KeysOf(df) |-> 0]
    /\ started = [k \in KeysOf(df) |-> 0]
    /\ fetched = [k \in KeysOf(df) |-> 0]
    /\ expired = 0
    /\ mainpc = "collecting" /\ collected = {} /\ progress = 0
    /\ rows = <<>> /\ infoLog = <<>> /\ out = <<>> /\ runs = 1

\* a pool thread takes the unit and calls build_ticker_row: st.cache_data returns
\* the cached value, or takes the key's compute lock and runs the body, which
\* calls get_history
AppStartUnit(u) ==
    /\ mode = "app"
    /\ upc[u] = "queued"
    /\ Cardinality(Running) < MAX_WORKERS
    /\ IF cache[KeyOf(u)] # NoEntry
       THEN /\ upc' = [upc EXCEPT ![u] = "done"]
            /\ fut' = [fut EXCEPT ![u] = cache[KeyOf(u)]]
            /\ UNCHANGED <<calls, lock, started>>
       ELSE /\ LockFree(KeyOf(u))
            /\ upc' = [upc EXCEPT ![u] = "calling"]
            /\ lock' = [lock EXCEPT ![KeyOf(u)] = u]
            /\ calls' = [calls EXCEPT ![u] = @ + 1]
            /\ started' = [started EXCEPT ![KeyOf(u)] = @ + 1]
            /\ fut' = fut
    /\ UNCHANGED <<mode, svars, df, attempt, lastWait, uhist, cache, fetched, expired,
                   mvars>>

\* get_history returns h and build_ticker_row runs to its end: what it returns,
\* None included, is stored by st.cache_data; a KeyError of calculate_momentum
\* leaves the future with the exception and the cache without an entry
AppHistoryReturns(u, h) ==
    /\ mode = "app"
    /\ upc[u] = "calling"
    /\ lock' = [lock EXCEPT ![KeyOf(u)] = 0]
    /\ fetched' = [fetched EXCEPT ![KeyOf(u)] = @ + 1]
    /\ upc' = [upc EXCEPT ![u] = "done"]
    /\ uhist' = [uhist EXCEPT ![u] = h]
    /\ fut' = [fut EXCEPT ![u] = BuildTickerRowTail(u, h)]
    /\ cache' = IF BuildTickerRowTail(u, h) = Raised THEN cache
                ELSE [cache EXCEPT ![KeyOf(u)] = BuildTickerRowTail(u, h)]
    /\ UNCHANGED <<mode, svars, df, attempt, lastWait, calls, started, expired, mvars>>

\* get_history raises: build_ticker_row raises, nothing is stored
AppHistoryRaises(u) ==
    /\ mode = "app"
    /\ upc[u] = "calling"
    /\ lock' = [lock EXCEPT ![KeyOf(u)] = 0]
    /\ upc' = [upc EXCEPT ![u] = "done"]
    /\ fut' = [fut EXCEPT ![u] = Raised]
    /\ UNCHANGED <<mode, svars, df, attempt, lastWait, calls, uhist, cache, started,
                   fetched, expired, mvars>>

\* one round of `for i, fut in enumerate(as_completed(futures))`: fut.result()
\* re-raises the unit's exception, which nothing in main catches
AppCollect(u) ==
    /\ mode = "app" /\ mainpc = "collecting"
    /\ upc[u] = "done" /\ u \notin collected
    /\ collected' = collected \cup {u}
    /\ IF fut[u] = Raised
       THEN /\ mainpc' = "crashed"
            /\ UNCHANGED <<progress, rows>>
       ELSE /\ mainpc' = mainpc
            /\ progress' = progress + 1
            /\ rows' = IF fut[u] # None THEN Append(rows, fut[u]) ELSE rows
    /\ UNCHANGED <<mode, svars, df, uvars, cvars, infoLog, out, runs>>

\* results_df[results_df["Momentum_Score"] >= min_score]
AppFilter(rs, min_score) == SelectSeq(rs, LAMBDA r : r.Momentum_Score >= min_score)

\* main after the loop, with the slider's min_score
AppMainReturn(min_score) ==
    /\ mode = "app" /\ mainpc = "collecting"
    /\ collected = Units
    /\ out' = AppFilter(rows, min_score)
    /\ mainpc' = "returned"
    /\ UNCHANGED <<mode, svars, df, uvars, cvars, collected, progress, rows, infoLog,
                   runs>>

\* an interaction reruns the script: main starts over, the cache stays.  The
\* executor's `with` block has waited for every unit of the run before.
AppRerun ==
    /\ mode = "app" /\ mainpc \in {"returned", "crashed"}
    /\ \A u \in Units : upc[u] = "done"
    /\ runs < MaxRuns
    /\ runs' = runs + 1
    /\ upc' = [u \in Units |-> "queued"]
    /\ fut' = [u \in Units |-> Pending]
    /\ uhist' = [u \in Units |-> Pending]
    /\ mainpc' = "collecting" /\ collected' = {} /\ progress' = 0
    /\ rows' = <<>> /\ out' = <<>>
    /\ UNCHANGED <<mode, svars, df, attempt, lastWait, calls, cvars, infoLog>>

NextApp ==
    \/ \E u \in Units : AppStartUnit(u)
    \/ \E u \in Units : \E h \in GetHistoryReturns : AppHistoryReturns(u, h)
    \/ \E u \in Units : AppHistoryRaises(u)
    \/ \E u \in Units : AppCollect(u)
    \/ \E min_score \in {0, 50, 100} : AppMainReturn(min_score)
    \/ AppRerun
    \/ \E k \in DOMAIN cache : Expire(k)

SpecApp == InitApp /\ [][NextApp]_vars

(***************************************************************************)
(* Score mode: one call of calculate_momentum on a drawn history.          *)
(***************************************************************************)
InitScore ==
    /\ mode = "score"
    /\ variant \in {"app", "analysis"}
    /\ \/ /\ hist \in { Hist(MaxBars, TRUE, v) :
                          v \in IF variant = "app" THEN AppVectors ELSE AnalysisVectors }
       \/ /\ hist \in { Hist(n, TRUE, BaseVec) : n \in 0..MaxBars }
       \/ /\ hist \in { Hist(n, FALSE, BaseVec) : n \in 0..MaxBars }
    /\ result = Pending
    /\ pts = <<>>
    /\ PipelineIdle

CallAppCalculateMomentum ==
    /\ mode = "score" /\ variant = "app" /\ result = Pending
    /\ result' = AppCalculateMomentum(hist)
    /\ pts' = IF AppCalculateMomentum(hist) \in {None, Raised} THEN <<>>
              ELSE AppPoints(hist.vec)
    /\ UNCHANGED <<mode, variant, hist, df, uvars, cvars, mvars>>

CallAnalysisCalculateMomentum ==
    /\ mode = "score" /\ variant = "analysis" /\ result = Pending
    /\ result' = AnaCalculateMomentum(hist)
    /\ UNCHANGED <<mode, variant, hist, pts, df, uvars, cvars, mvars>>

NextScore == CallAppCalculateMomentum \/ CallAnalysisCalculateMomentum

SpecScore == InitScore /\ [][NextScore]_vars

(***************************************************************************)
(* Indicator mode: the indicators of the latest bar computed from drawn    *)
(* rolling means and directional indicators, and the DI points scored on   *)
(* the crossover flags.                                                    *)
(***************************************************************************)
InitIndicators ==
    /\ mode = "indicators"
    /\ variant \in {"app", "analysis"}
    /\ hist \in IndicatorInputs
    /\ result = Pending
    /\ pts = <<>>
    /\ PipelineIdle

Flags(x) == [last_bullish |-> x[1], last_bearish |-> x[2]]

CallAppIndicators ==
    /\ mode = "indicators" /\ variant = "app" /\ result = Pending
    /\ LET x == calculate_di_crossovers(hist.plus_di, hist.minus_di,
                                        hist.plus_di_prev, hist.minus_di_prev)
       IN  result' = [RSI |-> AppRsi(hist.avg_gain, hist.avg_loss),
                      Volume_Ratio |-> AppVolumeRatio(hist.volume, hist.vol_avg_20),
                      Bullish_Crossover |-> x[1], Bearish_Crossover |-> x[2],
                      DI_Points |-> AppDiPts(Flags(x))]
    /\ UNCHANGED <<mode, variant, hist, pts, df, uvars, cvars, mvars>>

CallAnalysisIndicators ==
    /\ mode = "indicators" /\ variant = "analysis" /\ result = Pending
    /\ LET x == calculate_di_crossovers(hist.plus_di, hist.minus_di,
                                        hist.plus_di_prev, hist.minus_di_prev)
       IN  result' = [RSI |-> AnaRsi(hist.avg_gain, hist.avg_loss),
                      Volume_Ratio |-> AnaVolumeRatio(hist.volume, hist.vol_avg_20),
                      Bullish_Crossover |-> x[1], Bearish_Crossover |-> x[2],
                      DI_Points |-> AnaDiPts(Flags(x))]
    /\ UNCHANGED <<mode, variant, hist, pts, df, uvars, cvars, mvars>>

NextIndicators == CallAppIndicators \/ CallAnalysisIndicators

SpecIndicators == InitIndicators /\ [][NextIndicators]_vars

(***************************************************************************)
(* src/analysis.py filter_results, and the score filter of app.py's main.  *)
(* A table is its rows and the names of its columns; visualization.py      *)
(* passes an empty selection for a metadata column the table lacks.        *)
(***************************************************************************)
ResultRow(sym, score, ex, sector, industry, country) ==
    [Symbol |-> sym, Momentum_Score |-> score, Exchange |-> ex,
     Sector |-> sector, Industry |-> industry, Country |-> country]

\* a blank cell of the sheet is "nan" after the join
ResultRows ==
    << ResultRow("S90", 90, "LSE", "Tech", "Software", "UK"),
       ResultRow("S70", 70, "NYSE", "Energy", "Oil", "US"),
       ResultRow("S55", 55, "LSE", "Energy", "Software", "US"),
       ResultRow("S40", 40, "NYSE", "Tech", "Oil", "UK"),
       ResultRow("S10", 10, "LSE", "nan", "Oil", "US") >>

RECURSIVE Reverse(_)
Reverse(t) == IF t = <<>> THEN <<>> ELSE Append(Reverse(Tail(t)), Head(t))

MetaColumns == {"Sector", "Industry", "Country"}
AllColumns == {"Symbol", "Momentum_Score", "Exchange"} \cup MetaColumns

ResultTables ==
    { [rows |-> t, cols |-> AllColumns \ absent] :
        t \in SubSeqsOf(ResultRows) \cup SubSeqsOf(Reverse(ResultRows)),
        absent \in {{}} \cup { {c} : c \in MetaColumns } }

\* what the slider, the selectbox and the multiselects can hand over; an
\* exchange of None is "" and an allowed set of None is {}, which the tests
\* `if exchange` and `if allowed` do not tell apart
MinScores == {0, 60, 100}
ExchangeChoices == {"", "All", "LSE"}
Selections(col) ==
    CASE col = "Sector" -> {{}, {"Tech"}, {"Tech", "Energy"}}
      [] col = "Industry" -> {{}, {"Oil"}}
      [] col = "Country" -> {{}, {"US"}}

FilterCalls ==
    { [df |-> t, min_score |-> ms, exchange |-> ex, sectors |-> se,
       industries |-> ind, countries |-> co] :
        t \in ResultTables, ms \in MinScores, ex \in ExchangeChoices,
        se \in Selections("Sector"), ind \in Selections("Industry"),
        co \in Selections("Country") }

\* the calls in which a column the table lacks has no selection
ProgramFilterCalls ==
    { c \in FilterCalls :
        /\ "Sector" \notin c.df.cols => c.sectors = {}
        /\ "Industry" \notin c.df.cols => c.industries = {}
        /\ "Country" \notin c.df.cols => c.countries = {} }

\* `if allowed`: neither None nor empty
Truthy(allowed) == allowed # {}

\* Mutant of apply_if_present: the test of `allowed` is left out.
apply_if_present_always(rs, cols, col, allowed) ==
    IF col \in cols
    THEN SelectSeq(rs, LAMBDA r : r[col] \in allowed)
    ELSE rs

apply_if_present(rs, cols, col, allowed) ==
    IF Truthy(allowed) /\ col \in cols
    THEN SelectSeq(rs, LAMBDA r : r[col] \in allowed)
    ELSE rs

\* the value returned, and the caller's table after the call
filter_results(frame, min_score, exchange, sectors, industries, countries) ==
    IF frame.rows = <<>> THEN [out |-> frame.rows, df |-> frame]
    ELSE LET out0 == frame.rows  \* df.copy()
             out1 == IF exchange # "" /\ exchange # "All" /\ "Exchange" \in frame.cols
                     THEN SelectSeq(out0, LAMBDA r : r.Exchange = exchange)
                     ELSE out0
             out2 == apply_if_present(out1, frame.cols, "Sector", sectors)
             out3 == apply_if_present(out2, frame.cols, "Industry", industries)
             out4 == apply_if_present(out3, frame.cols, "Country", countries)
             out5 == IF "Momentum_Score" \in frame.cols
                     THEN SelectSeq(out4, LAMBDA r : r.Momentum_Score >= min_score)
                     ELSE out4
         IN  [out |-> out5, df |-> frame]

InitFilter ==
    /\ mode = "filter"
    /\ variant \in {"app", "analysis"}
    /\ hist \in ProgramFilterCalls
    /\ variant = "app" =>
          /\ hist.df.cols = AllColumns /\ hist.exchange = ""
          /\ hist.sectors = {} /\ hist.industries = {} /\ hist.countries = {}
    /\ result = Pending
    /\ pts = <<>>
    /\ PipelineIdle

CallFilterResults ==
    /\ mode = "filter" /\ variant = "analysis" /\ result = Pending
    /\ result' = filter_results(hist.df, hist.min_score, hist.exchange, hist.sectors,
                                hist.industries, hist.countries)
    /\ UNCHANGED <<mode, variant, hist, pts, df, uvars, cvars, mvars>>

\* main of app.py: results_df[results_df["Momentum_Score"] >= min_score].copy()
CallAppFilter ==
    /\ mode = "filter" /\ variant = "app" /\ result = Pending
    /\ result' = [out |-> AppFilter(hist.df.rows, hist.min_score), df |-> hist.df]
    /\ UNCHANGED <<mode, variant, hist, pts, df, uvars, cvars, mvars>>

NextFilter == CallFilterResults \/ CallAppFilter

SpecFilter == InitFilter /\ [][NextFilter]_vars

(***************************************************************************)
(* src/visualization.py: main from the upload to the post-fetch filters.   *)
(* A blank cell of the sheet is read as NaN, written "nan" here; dropna    *)
(* drops it and isin never matches it.                                     *)
(***************************************************************************)
isna(v) == v = "nan"

\* the metadata cells one row of the sheet can have
MetaChoices ==
    { [Sector |-> "Tech", Industry |-> "Oil", Country |-> "US"],
      [Sector |-> "Energy", Industry |-> "nan", Country |-> "US"],
      [Sector |-> "nan", Industry |-> "Oil", Country |-> "nan"],
      [Sector |-> "nan", Industry |-> "nan", Country |-> "nan"] }

\* one row of the cleaned sheet with the metadata columns metacols
SheetRow(sym, ex, meta, metacols) ==
    [c \in {"Symbol", "Exchange"} \cup metacols |->
        CASE c = "Symbol" -> sym
          [] c = "Exchange" -> ex
          [] OTHER -> meta[c]]

ScanSymbols == << <<"A">>, <<"B">>, <<"C">> >>
ExchangeOfSymbol(sym) == IF sym = <<"B">> THEN "NYSE" ELSE "LSE"

\* base_df: distinct symbols (clean_symbols), at most one metadata column
\* absent
BaseSheets ==
    UNION { UNION { { [j \in DOMAIN syms |->
                          SheetRow(syms[j], ExchangeOfSymbol(syms[j]), m[j],
                                   MetaColumns \ absent)] :
                        m \in [DOMAIN syms -> MetaChoices] } :
                    syms \in { t \in SubSeqsOf(ScanSymbols) :
                                 Len(t) \in 1..MaxSheetRows } } :
            absent \in {{}} \cup { {c} : c \in MetaColumns } }

ColumnsOf(table) == IF table = <<>> THEN {} ELSE DOMAIN table[1]

\* df[col].dropna().unique()
Options(table, col) ==
    IF col \in ColumnsOf(table)
    THEN { table[j][col] : j \in DOMAIN table } \ {"nan"}
    ELSE {}

\* Mutant of PrefetchColumn: the rows with a blank cell are kept.
PrefetchColumnKeepsBlank(table, col, selected) ==
    IF col \in ColumnsOf(table) /\ Options(table, col) # {}
    THEN SelectSeq(table, LAMBDA r : r[col] \in selected \/ isna(r[col]))
    ELSE table

\* one round of `for col in ["Sector", "Industry", "Country", ...]`
PrefetchColumn(table, col, selected) ==
    IF col \in ColumnsOf(table) /\ Options(table, col) # {}
    THEN SelectSeq(table, LAMBDA r : r[col] \in selected)
    ELSE table

\* enrich_with_yf_symbols on a sheet without a YF_Symbol column
enrich_with_yf_symbols(table) ==
    [j \in DOMAIN table |->
        [c \in DOMAIN table[j] \cup {"YF_Symbol"} |->
            IF c = "YF_Symbol"
            THEN map_to_yf_symbol(table[j].Symbol, table[j].Exchange, <<>>)
            ELSE table[j][c]]]

\* _multiselect_all: nothing when there is no option, else what the user
\* leaves selected of the options, all of them by default
multiselect_all(options) == IF options = {} THEN {{}} ELSE SUBSET options

InitScan ==
    /\ mode = "scan"
    /\ variant = "analysis" /\ hist \in BaseSheets /\ result = Pending
    /\ pts = <<>>
    /\ df = <<>>
    /\ upc = <<>> /\ attempt = <<>> /\ lastWait = <<>> /\ calls = <<>> /\ fut = <<>>
    /\ uhist = <<>>
    /\ cache = <<>> /\ lock = <<>> /\ started = <<>> /\ fetched = <<>>
    /\ expired = 0
    /\ mainpc = "uploaded" /\ collected = {} /\ progress = 0
    /\ rows = <<>> /\ infoLog = <<>> /\ out = <<>> /\ runs = 1

\* _apply_prefetch_filters(base_df) and enrich_with_yf_symbols
ApplyPrefetchFilters ==
    /\ mode = "scan" /\ mainpc = "uploaded"
    /\ \E ex_selected \in {"All"} \cup (Options(hist, "Exchange") \ {""}) :
         LET out0 == IF ex_selected # "All"
                     THEN SelectSeq(hist, LAMBDA r : r.Exchange = ex_selected)
                     ELSE hist
         IN  \E s1 \in SUBSET Options(out0, "Sector") :
               LET out1 == PrefetchColumn(out0, "Sector", s1)
               IN  \E s2 \in SUBSET Options(out1, "Industry") :
                     LET out2 == PrefetchColumn(out1, "Industry", s2)
                     IN  \E s3 \in SUBSET Options(out2, "Country") :
                           df' = enrich_with_yf_symbols(
                                     PrefetchColumn(out2, "Country", s3))
    /\ mainpc' = "prefetched"
    /\ UNCHANGED <<mode, svars, uvars, cvars, collected, progress, rows, infoLog, out,
                   runs>>

\* what one unit of fetch_all ends with: three failed attempts, or a history
ScanOutcomes ==
    { Raised, Hist(ANALYSIS_MIN_BARS - 1, TRUE, BaseVec), Hist(MaxBars, TRUE, BaseVec),
      Hist(MaxBars, TRUE, WeakVec) }

\* the orders in which n units can complete
Orders(n) == { p \in [1..n -> 1..n] : \A i \in 1..n : \A j \in 1..n :
                                          i # j => p[i] # p[j] }

\* fetch_all after the loop, for the table and the rows collected
FetchAllTable(table, rs) ==
    IF rs = <<>> THEN <<>>
    ELSE LET merged == MergeMeta(table, rs)
         IN  IF "Momentum_Score" \in DOMAIN merged[1]
             THEN SortByScore(merged) ELSE merged

\* `if st.button("Fetch data")`: results_df = fetch_all(prefetch_df), kept in
\* the session state
FetchData ==
    /\ mode = "scan" /\ mainpc = "prefetched"
    /\ Len(df) > 0
    /\ \E h \in [DOMAIN df -> ScanOutcomes] : \E order \in Orders(Len(df)) :
         LET got == [j \in DOMAIN df |->
                        IF h[order[j]] = Raised THEN None
                        ELSE GetTickerDataTail(order[j], h[order[j]])]
             rs == SelectSeq(got, LAMBDA x : x # None)
         IN  /\ rows' = rs
             /\ out' = FetchAllTable(df, rs)
    /\ progress' = Len(df)
    /\ mainpc' = "fetched"
    /\ UNCHANGED <<mode, svars, df, uvars, cvars, collected, infoLog, runs>>

\* the post-fetch filters of main and the call of filter_results
PostFetchFilters ==
    /\ mode = "scan" /\ mainpc = "fetched"
    /\ out # <<>>
    /\ \E min_score \in MinScores :
       \E ex_selected \in {"All"} \cup Options(out, "Exchange") :
       \E sectors \in multiselect_all(Options(out, "Sector")) :
       \E industries \in multiselect_all(Options(out, "Industry")) :
       \E countries \in multiselect_all(Options(out, "Country")) :
         result' =
           [call |-> [min_score |-> min_score, exchange |-> ex_selected,
                      sectors |-> sectors, industries |-> industries,
                      countries |-> countries],
            out |-> filter_results([rows |-> out, cols |-> ColumnsOf(out)],
                                   min_score, ex_selected, sectors, industries,
                                   countries).out]
    /\ mainpc' = "filtered"
    /\ UNCHANGED <<mode, variant, hist, pts, df, uvars, cvars, collected, progress,
                   rows, infoLog, out, runs>>

NextScan == ApplyPrefetchFilters \/ FetchData \/ PostFetchFilters

SpecScan == InitScan /\ [][NextScan]_vars

(***************************************************************************)
(* The three entry points together.                                        *)
(***************************************************************************)
Init == InitScore \/ InitLoader \/ InitApp
Next == NextScore \/ NextLoader \/ NextApp
Spec == Init /\ [][Next]_vars

\* calculate_momentum of either module called directly, and the pipeline of
\* data_loader.py that calls analysis.py's.
InitMinBars == InitScore \/ InitLoader
NextMinBars == NextScore \/ NextLoader
SpecMinBars == InitMinBars /\ [][NextMinBars]_vars

(***************************************************************************)
(* The rule table of the scoring engine, as the specification states it.   *)
(***************************************************************************)
Returned == result \notin {Pending, None, Raised}

RuleTrend(v) ==
    CASE v.price > v.ema20 /\ v.ema20 > v.ema50 /\ v.ema50 > v.ema200 -> 30
      [] ~(v.price > v.ema20 /\ v.ema20 > v.ema50 /\ v.ema50 > v.ema200)
         /\ v.price > v.ema50 /\ v.ema50 > v.ema200 -> 20
      [] ~(v.price > v.ema50 /\ v.ema50 > v.ema200) /\ v.price > v.ema200 -> 10
      [] OTHER -> 0

RuleRsi(v) ==
    CASE v.rsi = NaN -> 0
      [] v.rsi # NaN /\ 60 <= v.rsi /\ v.rsi < 80 -> 20
      [] v.rsi # NaN /\ ((50 <= v.rsi /\ v.rsi < 60) \/ (80 <= v.rsi /\ v.rsi <= 90)) -> 10
      [] OTHER -> 0

RuleMacd(v) == IF v.macd_hist > 0 THEN 15 ELSE 0

RuleVol(v) ==
    CASE v.volume_ratio = NaN -> 0
      [] v.volume_ratio # NaN /\ v.volume_ratio > 15 -> 15
      [] v.volume_ratio # NaN /\ v.volume_ratio > 12 /\ v.volume_ratio <= 15 -> 10
      [] OTHER -> 0

RuleAdx(v) ==
    CASE v.adx = NaN -> 0
      [] v.adx # NaN /\ v.adx > 30 -> 20
      [] v.adx # NaN /\ v.adx > 25 /\ v.adx <= 30 -> 15
      [] v.adx # NaN /\ v.adx > 20 /\ v.adx <= 25 -> 10
      [] OTHER -> 0

RuleDi(v) ==
    CASE v.last_bullish /\ ~v.last_bearish -> 10
      [] v.last_bearish /\ ~v.last_bullish -> -10
      [] OTHER -> 0

RuleTable(v) == <<RuleTrend(v), RuleRsi(v), RuleMacd(v), RuleVol(v), RuleAdx(v), RuleDi(v)>>

Clamped(x) == IF x < 0 THEN 0 ELSE IF x > 100 THEN 100 ELSE x

\* The five category points analysis.py returns with its result.
AnaPoints(r) == <<r.EMA_Points, r.RSI_Points, r.MACD_Points, r.ADX_Points, r.DI_Points>>

(***************************************************************************)
(* C1 (as stated): whenever calculate_momentum returns a result, its       *)
(* Momentum_Score is in [0,100] and is the clamped sum of the six category *)
(* points: trend alignment, RSI, MACD, volume, ADX, DI crossover.  For     *)
(* analysis.py, which returns five category points and none for volume,    *)
(* the volume category is the rule table's.                                *)
(***************************************************************************)
C1_SixCategorySum ==
    Returned =>
        /\ result.Momentum_Score \in 0..100
        /\ variant = "app" => result.Momentum_Score = Clamped(SumSeq(pts))
        /\ variant = "analysis" =>
              result.Momentum_Score =
                  Clamped(SumSeq(AnaPoints(result)) + RuleVol(hist.vec))

(***************************************************************************)
(* C1 (amended): the Momentum_Score is in [0,100] and is the clamped sum   *)
(* of the category points the variant scores: the six increments of        *)
(* app.py; the five returned points (EMA, RSI, MACD, ADX, DI) of           *)
(* analysis.py, which scores no volume category.                           *)
(***************************************************************************)
C1_ScoreIsClampedSum ==
    Returned =>
        /\ result.Momentum_Score \in 0..100
        /\ variant = "app" =>
              Len(pts) = 6 /\ result.Momentum_Score = Clamped(SumSeq(pts))
        /\ variant = "analysis" =>
              result.Momentum_Score = Clamped(SumSeq(AnaPoints(result)))

\* C1 witness: results where the clamp acts, at both ends.
C1_Witness ==
    /\ Returned
    /\ \/ variant = "app" /\ SumSeq(pts) > 100 /\ result.Momentum_Score = 100
       \/ variant = "analysis" /\ SumSeq(AnaPoints(result)) < 0
          /\ result.Momentum_Score = 0

(***************************************************************************)
(* C2 (as stated): in both variants every category contributes the tier of *)
(* the rule table its indicator matches.                                   *)
(***************************************************************************)
C2_RuleTableBothVariants ==
    Returned =>
        /\ variant = "app" => pts = RuleTable(hist.vec)
        /\ variant = "analysis" =>
              /\ result.EMA_Points = RuleTrend(hist.vec)
              /\ result.RSI_Points = RuleRsi(hist.vec)
              /\ result.MACD_Points = RuleMacd(hist.vec)
              /\ result.ADX_Points = RuleAdx(hist.vec)
              /\ result.DI_Points = RuleDi(hist.vec)

\* The table analysis.py scores by.
AnaRuleEma(v) ==
    10 * Cardinality({ c \in {"p20", "p50", "p200", "stack"} :
            \/ c = "p20" /\ v.price > v.ema20
            \/ c = "p50" /\ v.price > v.ema50
            \/ c = "p200" /\ v.price > v.ema200
            \/ c = "stack" /\ v.ema20 > v.ema50 /\ v.ema50 > v.ema200 })

AnaRuleRsi(v) ==
    CASE v.rsi = NaN -> 0
      [] v.rsi # NaN /\ v.rsi < 30 -> -10
      [] v.rsi # NaN /\ 30 <= v.rsi /\ v.rsi < 40 -> -5
      [] v.rsi # NaN /\ 40 <= v.rsi /\ v.rsi < 50 -> 0
      [] v.rsi # NaN /\ 50 <= v.rsi /\ v.rsi < 60 -> 10
      [] v.rsi # NaN /\ 60 <= v.rsi /\ v.rsi < 80 -> 20
      [] v.rsi # NaN /\ 80 <= v.rsi /\ v.rsi < 90 -> 10
      [] OTHER -> -5

AnaRuleAdx(v) ==
    CASE v.adx = NaN -> 0
      [] v.adx # NaN /\ v.adx < 15 -> 0
      [] v.adx # NaN /\ 15 <= v.adx /\ v.adx < 25 -> 5
      [] v.adx # NaN /\ 25 <= v.adx /\ v.adx < 40 -> 10
      [] v.adx # NaN /\ 40 <= v.adx /\ v.adx < 60 -> 15
      [] OTHER -> 20

AnaRuleDi(v) ==
    CASE v.last_bullish /\ ~v.last_bearish -> 5
      [] v.last_bearish /\ ~v.last_bullish -> -5
      [] OTHER -> 0

(***************************************************************************)
(* C2 (amended): app.py's six increments are exactly the tiers of the rule *)
(* table, each inside its listed point set.  analysis.py scores by another *)
(* table: EMA 10 points for each of price>EMA20, price>EMA50,              *)
(* price>EMA200, EMA20>EMA50>EMA200; RSI 20 for [60,80), 10 for [50,60)    *)
(* and [80,90), 0 for [40,50), -5 for [30,40) and for >=90, -10 below 30;  *)
(* MACD 10 for histogram>0; no volume; ADX 20 for >=60, 15 for [40,60),    *)
(* 10 for [25,40), 5 for [15,25); DI +5 bullish, -5 bearish.               *)
(***************************************************************************)
C2_RuleTablePerVariant ==
    Returned =>
        /\ variant = "app" =>
              /\ pts = RuleTable(hist.vec)
              /\ pts[1] \in {0, 10, 20, 30} /\ pts[2] \in {0, 10, 20}
              /\ pts[3] \in {0, 15} /\ pts[4] \in {0, 10, 15}
              /\ pts[5] \in {0, 10, 15, 20} /\ pts[6] \in {-10, 0, 10}
        /\ variant = "analysis" =>
              /\ result.EMA_Points = AnaRuleEma(hist.vec)
              /\ result.RSI_Points = AnaRuleRsi(hist.vec)
              /\ result.MACD_Points = (IF hist.vec.macd_hist > 0 THEN 10 ELSE 0)
              /\ result.ADX_Points = AnaRuleAdx(hist.vec)
              /\ result.DI_Points = AnaRuleDi(hist.vec)

\* C2 witness: app.py scored a vector on the tier boundaries (RSI 90, ADX 30,
\* volume ratio 1.5) with the full trend alignment.
C2_Witness ==
    /\ Returned /\ variant = "app"
    /\ hist.vec.rsi = 90 /\ hist.vec.adx = 30 /\ hist.vec.volume_ratio = 15
    /\ pts = <<30, 10, 15, 10, 15, 10>>

(***************************************************************************)
(* C3 (as stated): in both variants the trend label is the tier of the     *)
(* clamped total: >=80 strong up, [60,80) medium up, [40,60) weak up,      *)
(* below 40 neutral/down.                                                  *)
(***************************************************************************)
TierOfScore(score) ==
    CASE score >= 80 -> "strong up"
      [] score >= 60 /\ score < 80 -> "medium up"
      [] score >= 40 /\ score < 60 -> "weak up"
      [] OTHER -> "neutral/down"

TierOfLabel(label) ==
    CASE label = "up Strong" -> "strong up"
      [] label = "up Medium" -> "medium up"
      [] label = "upright Weak" -> "weak up"
      [] OTHER -> "neutral/down"

UnitsOfKey(k) == { u \in Units : KeyOf(u) = k }
HasRow(table, u) == \E j \in DOMAIN table : table[j].Symbol = df[u].Symbol
IsRow(x) == x \notin {Pending, None, Raised}

(***************************************************************************)
(* C4 (as stated): units that request the same resolved fetch symbol       *)
(* within the time-to-live trigger at most one provider call for it, and   *)
(* never two at a time.                                                    *)
(***************************************************************************)
C4_AtMostOneProviderCall ==
    mode = "loader" =>
        \A k \in DOMAIN cache :
            Cardinality(UnitsOfKey(k)) >= 2 =>
                started[k] <= 1 /\ Cardinality(InFlight(k)) <= 1

(***************************************************************************)
(* C4 (amended): for every key, never two provider calls are in flight at  *)
(* a time, and within the time-to-live at most one provider call returns   *)
(* (that one is cached); a call that raised is not cached, so the retries  *)
(* of either unit call the provider again.                                 *)
(***************************************************************************)
C4_OneInFlightOneFetched ==
    mode = "loader" =>
        \A k \in DOMAIN cache :
            /\ Cardinality(InFlight(k)) <= 1
            /\ fetched[k] <= 1
            /\ InFlight(k) # {} => lock[k] \in InFlight(k) /\ cache[k] = NoEntry

\* C4 witness: two units of one key, one in its provider call and the other
\* waiting for the key's lock.
C4_Witness ==
    /\ mode = "loader"
    /\ \E u \in Units : \E v \in Units :
          /\ u # v /\ KeyOf(u) = KeyOf(v)
          /\ upc[u] = "calling" /\ upc[v] = "lockwait"

(***************************************************************************)
(* C5 (as stated): the cache holds successful fetches only: a cached       *)
(* history is one that yields a row (in app.py: a cached row is a row),    *)
(* so that a fetch that produced no row leaves no entry behind.            *)
(***************************************************************************)
C5_FailuresNeverCached ==
    \A k \in DOMAIN cache :
        cache[k] # NoEntry =>
            IF mode = "loader" THEN cache[k].n >= 60 /\ cache[k].cols
            ELSE cache[k] # None

(***************************************************************************)
(* C6: a unit whose provider call raised on every attempt has made exactly *)
(* 3 attempts and 3 provider calls, no unit ever makes a 4th attempt, the  *)
(* failed unit is logged as skipped and has no row, and the run goes on to *)
(* return.                                                                 *)
(***************************************************************************)
C6_ThreeAttemptsThenSkip ==
    mode = "loader" =>
        /\ \A u \in Units :
              /\ attempt[u] <= 3 /\ calls[u] <= attempt[u]
              /\ fut[u] = Raised => attempt[u] = 3 /\ calls[u] = 3
              /\ fut[u] = Raised => ~HasRow(rows, u) /\ ~HasRow(out, u)
              /\ upc[u] = "sleep_backoff" => calls[u] = attempt[u] /\ attempt[u] < 3
        /\ Len(infoLog) = Cardinality({ u \in collected : fut[u] = Raised })
        /\ mainpc # "crashed"
        /\ mainpc = "returned" => collected = Units

\* C6 witness: a returned run in which one unit failed after 3 attempts and
\* another unit's row is in the table.
C6_Witness ==
    /\ mode = "loader" /\ mainpc = "returned"
    /\ \E u \in Units : fut[u] = Raised /\ attempt[u] = 3 /\ calls[u] = 3
    /\ Len(infoLog) = 1 /\ Len(out) = 1

(***************************************************************************)
(* C7 (as stated): every attempt of a unit, the first and each retry, is   *)
(* preceded by a jittered sleep of its own.                                *)
(***************************************************************************)
C7_JitterBeforeEveryAttempt ==
    mode = "loader" =>
        \A u \in Units : attempt[u] >= 1 => lastWait[u] = "jitter"

(***************************************************************************)
(* C7 (amended): a unit sleeps one jittered delay, before its first        *)
(* attempt; each retry is preceded by tenacity's exponential backoff wait, *)
(* not by a jittered sleep.                                                *)
(***************************************************************************)
C7_JitterFirstBackoffAfter ==
    mode = "loader" =>
        \A u \in Units :
            /\ attempt[u] = 1 => lastWait[u] = "jitter"
            /\ attempt[u] > 1 => lastWait[u] = "backoff"
            /\ upc[u] \in {"lockwait", "calling"} => attempt[u] >= 1

\* C7 witness: a unit in the provider call of its second attempt.
C7_Witness ==
    /\ mode = "loader"
    /\ \E u \in Units : upc[u] = "calling" /\ attempt[u] = 2 /\ lastWait[u] = "backoff"

(***************************************************************************)
(* C8 (as stated): a unit that failed or was skipped is dropped from the   *)
(* table, the rows of the other units are collected and returned, and no   *)
(* unit's failure ends the orchestrator's run with an uncaught exception.  *)
(***************************************************************************)
C8_FailureNeverPropagates ==
    /\ mainpc # "crashed"
    /\ mainpc = "returned" =>
          \A u \in Units :
              /\ IsRow(fut[u]) => HasRow(rows, u)
              /\ ~IsRow(fut[u]) => ~HasRow(rows, u)

C10_ShortSeriesNoneNoRow ==
    /\ mode = "score" /\ result # Pending =>
          /\ variant = "analysis" /\ hist.n < 60 => result = None
          /\ variant = "app" /\ hist.n < 50 => result = None
    /\ mode = "loader" =>
          \A u \in Units :
              uhist[u] # Pending /\ uhist[u].n < 60 =>
                  fut[u] = None /\ ~HasRow(rows, u) /\ ~HasRow(out, u)

\* C10 witness: a returned run of fetch_all in which a unit fetched 59 bars.
C10_Witness ==
    /\ mode = "loader" /\ mainpc = "returned"
    /\ \E u \in Units : uhist[u] # Pending /\ uhist[u].n = 59 /\ fut[u] = None

(***************************************************************************)
(* C11: when an indicator a category reads is undefined (NaN) at the       *)
(* latest bar, that category adds exactly 0 points, and calculate_momentum *)
(* returns a result, without raising, for every history that is long       *)
(* enough and has the required columns.                                    *)
(***************************************************************************)
C11_UndefinedIndicatorScoresZero ==
    mode = "score" =>
        /\ Returned /\ variant = "app" =>
              /\ hist.vec.rsi = NaN => pts[2] = 0
              /\ hist.vec.volume_ratio = NaN => pts[4] = 0
              /\ hist.vec.adx = NaN => pts[5] = 0
        /\ Returned /\ variant = "analysis" =>
              /\ hist.vec.rsi = NaN => result.RSI_Points = 0
              /\ hist.vec.adx = NaN => result.ADX_Points = 0
        /\ result # Pending /\ hist.cols
              /\ hist.n >= (IF variant = "app" THEN 50 ELSE 60) => Returned

\* C11 witness: analysis.py has scored a history whose RSI and ADX are both
\* undefined, and the other categories still gave points.
C11_Witness ==
    /\ mode = "score" /\ Returned /\ variant = "analysis"
    /\ hist.vec.rsi = NaN /\ hist.vec.adx = NaN
    /\ result.RSI_Points = 0 /\ result.ADX_Points = 0
    /\ result.Momentum_Score = 45

Computed == mode = "indicators" /\ result # Pending

(***************************************************************************)
(* C12 (as stated): when the average loss over the RSI window is zero and  *)
(* there were gains (strictly increasing closes), the RSI is exactly 100:  *)
(* not NaN and not any other value.                                        *)
(***************************************************************************)
C12_RsiIs100WhenNoLoss ==
    Computed /\ hist.avg_loss = 0 /\ Gt(hist.avg_gain, 0) => result.RSI = 10000

(***************************************************************************)
(* C13 (as stated): the volume ratio is the latest volume over the 20-bar  *)
(* mean volume, and it is undefined whenever that mean is zero or          *)
(* undefined: no finite number stands in for it.                           *)
(***************************************************************************)
C13_VolumeRatioUndefinedOnZeroMean ==
    Computed =>
        /\ hist.vol_avg_20 \in {0, NaN} => result.Volume_Ratio = NaN
        /\ hist.vol_avg_20 \notin {0, NaN} /\ hist.volume # NaN =>
              result.Volume_Ratio = (10 * hist.volume) \div hist.vol_avg_20

(***************************************************************************)
(* C14: on a bar the bullish and the bearish DI crossover flags are never  *)
(* both true, so the DI category adds +10 or -10 (+5 or -5 in analysis.py) *)
(* or nothing, never both at once.                                         *)
(***************************************************************************)
C14_CrossoverFlagsExclusive ==
    Computed =>
        /\ ~(result.Bullish_Crossover /\ result.Bearish_Crossover)
        /\ <<result.Bullish_Crossover, result.Bearish_Crossover>> \in CrossValues
        /\ LET unit == IF variant = "app" THEN 10 ELSE 5
           IN  /\ result.Bullish_Crossover <=> result.DI_Points = unit
               /\ result.Bearish_Crossover <=> result.DI_Points = -unit
               /\ result.DI_Points \in {-unit, 0, unit}

\* C14 witness: the two DI lines meet on the previous bar and part on the
\* latest one, and app.py scored the bullish crossover.
C14_Witness ==
    /\ Computed /\ variant = "app"
    /\ hist.plus_di_prev = hist.minus_di_prev /\ hist.plus_di_prev # NaN
    /\ Gt(hist.plus_di, hist.minus_di)
    /\ result.Bullish_Crossover /\ result.DI_Points = 10

\* what one call's predicates say of a row
Selected(r, call) ==
    /\ r.Momentum_Score >= call.min_score
    /\ call.exchange \in {"", "All"} \/ r.Exchange = call.exchange
    /\ call.sectors # {} => r.Sector \in call.sectors
    /\ call.industries # {} => r.Industry \in call.industries
    /\ call.countries # {} => r.Country \in call.countries

RECURSIVE KeepSelected(_, _)
KeepSelected(t, call) ==
    IF t = <<>> THEN <<>>
    ELSE IF Selected(Head(t), call) THEN <<Head(t)>> \o KeepSelected(Tail(t), call)
    ELSE KeepSelected(Tail(t), call)

C16_ProgressCountsEveryFinishedUnit ==
    mode \in {"loader", "app"} =>
        /\ progress = Cardinality(collected)
        /\ progress <= Len(df)

RowsOf(table, u) == { j \in DOMAIN table : table[j].Symbol = df[u].Symbol }

(***************************************************************************)
(* C17: for a sheet of distinct symbols, the table fetch_all returns has   *)
(* exactly one row for each symbol whose unit returned a row and none for  *)
(* any other symbol: the join of the metadata neither duplicates nor       *)
(* removes a collected row.                                                *)
(***************************************************************************)
C17_OneRowPerSucceededSymbol ==
    mode = "loader" /\ mainpc = "returned" =>
        /\ \A u \in Units :
              Cardinality(RowsOf(out, u)) = IF IsRow(fut[u]) THEN 1 ELSE 0
        /\ \A j \in DOMAIN out : \E u \in Units : out[j].Symbol = df[u].Symbol
        /\ Len(out) = Len(rows)
        /\ \A j \in DOMAIN out : \E k \in DOMAIN rows :
              /\ out[j].Symbol = rows[k].Symbol
              /\ out[j].Exchange = rows[k].Exchange
              /\ out[j].YF_Symbol = rows[k].YF_Symbol

\* C17 witness: a returned run of two symbols with the same metadata value,
\* both of which have their row in the table.
C17_Witness ==
    /\ mode = "loader" /\ mainpc = "returned"
    /\ Len(df) = 2 /\ Len(out) = 2
    /\ \A c \in MetaCols(df) : df[1][c] = df[2][c]
    /\ out[1].Symbol # out[2].Symbol

(***************************************************************************)
(* C18 (as stated): every metadata column of the sheet (every column but   *)
(* Symbol, Exchange and YF_Symbol) is a column of the returned table under *)
(* its own name, and each row carries in it the value the sheet has for    *)
(* that row's symbol.                                                      *)
(***************************************************************************)
C18_MetadataPassesThrough ==
    mode = "loader" /\ mainpc = "returned" =>
        \A j \in DOMAIN out : \A c \in MetaCols(df) :
            /\ c \in DOMAIN out[j]
            /\ \A u \in Units :
                  df[u].Symbol = out[j].Symbol => out[j][c] = df[u][c]

(***************************************************************************)
(* C20: if every provider call returns or raises, every scheduled unit     *)
(* ends as a row, a skip or a failure after at most 3 attempts, and        *)
(* fetch_all returns with the completed counter at the number of input     *)
(* symbols: no unit stays pending for ever.                                *)
(***************************************************************************)
C20_FetchAllReturns ==
    mode = "loader" ~>
        /\ mainpc = "returned"
        /\ progress = Len(df)
        /\ \A u \in Units :
              upc[u] = "done" /\ fut[u] # Pending /\ attempt[u] \in 1..3

\* C20 witness: fetch_all has returned from a run in which one unit used its
\* three attempts and failed and the other one made a row at its second.
C20_Witness ==
    /\ mode = "loader" /\ mainpc = "returned" /\ progress = 2 /\ Len(df) = 2
    /\ \E u \in Units : attempt[u] = 3 /\ fut[u] = Raised
    /\ \E u \in Units : attempt[u] = 2 /\ IsRow(fut[u])

\* The score get_ticker_data computed for a row of the returned table: the
\* column Momentum_Score, which the merge renames when the sheet has one too.
ComputedScore(r) ==
    IF "Momentum_Score" \in DOMAIN r THEN r.Momentum_Score ELSE r["Momentum_Score_x"]

\* The place of a symbol's row in the order of completion.
CompletionRank(sym) == CHOOSE k \in DOMAIN rows : rows[k].Symbol = sym

(***************************************************************************)
(* C21 (as stated): whatever the order in which the units completed, the   *)
(* table fetch_all returns is ordered by score, highest first, and rows of *)
(* equal score stand in their order of completion.                         *)
(***************************************************************************)
C21_SortedByScoreStable ==
    mode = "loader" /\ mainpc = "returned" =>
        \A i \in DOMAIN out : \A j \in DOMAIN out :
            i < j =>
              /\ ComputedScore(out[i]) >= ComputedScore(out[j])
              /\ ComputedScore(out[i]) = ComputedScore(out[j]) =>
                    CompletionRank(out[i].Symbol) < CompletionRank(out[j].Symbol)

\* every option the post-fetch multiselects offer is selected
AllOptionsSelected ==
    /\ result.call.sectors = Options(out, "Sector")
    /\ result.call.industries = Options(out, "Industry")
    /\ result.call.countries = Options(out, "Country")

(***************************************************************************)
(* C22: when every option of the post-fetch Sector, Industry and Country   *)
(* filters is selected, filter_results keeps every fetched row whose       *)
(* Momentum_Score is at least min_score (and whose exchange is the one     *)
(* chosen, when one is), the rows with a blank metadata cell included: the *)
(* metadata filters remove nothing.                                        *)
(***************************************************************************)
C22_AllSelectedKeepsEveryScoredRow ==
    mode = "scan" /\ mainpc = "filtered" /\ AllOptionsSelected =>
        result.out =
            SelectSeq(out, LAMBDA r :
                /\ r.Momentum_Score >= result.call.min_score
                /\ result.call.exchange = "All" \/ r.Exchange = result.call.exchange)

\* C22 witness: two rows were fetched from a sheet whose Sector cells are
\* blank and whose Industry cells are not; with everything selected and
\* min_score 60 the row scoring 80 is kept, blank Sector and all, and the
\* row scoring 20 is not.
C22_Witness ==
    /\ mode = "scan" /\ mainpc = "filtered" /\ AllOptionsSelected
    /\ result.call.exchange = "All" /\ result.call.min_score = 60
    /\ result.call.sectors = {} /\ result.call.industries # {}
    /\ Len(out) = 2 /\ Len(result.out) = 1
    /\ isna(result.out[1].Sector) /\ result.out[1].Momentum_Score = 80

====
